---- MODULE Spec2Model ----
(***************************************************************************)
(* docker-diff: the compare command (extract_layers_info followed by       *)
(* mode_1_create_diff) and the merge command (merge_base_diff_images),     *)
(* modelled step by step over small TAR archives.                          *)
(*                                                                         *)
(* A member name is the sequence of its path segments, that is the value   *)
(* of name.split("/"): <<"L1", "layer.tar">> stands for "L1/layer.tar".    *)
(* File data is an opaque token; the JSON a token decodes to is given by   *)
(* the table ParseJSON.  Sizes are in bytes; total_size, a float number of *)
(* megabytes in the source, is kept as the exact number of bytes and       *)
(* rounded where the source formats it (Fmt2).                             *)
(*                                                                         *)
(* Input archives are ones a filesystem can hold (WellFormed): no member   *)
(* name occurs twice and no file lies above another member.  Every I/O     *)
(* call that can raise does so nondeterministically; a member whose read   *)
(* fails in the write loop fails before any of it is written.              *)
(***************************************************************************)
EXTENDS Integers, Sequences, FiniteSets, TLC

VARIABLES
    cmd,              \* the CLI subcommand: "compare", "merge", or "roundtrip" (compare, then merge)
    pc,               \* position in the running command
    baseImage,        \* --base archive: its members, in archive order
    newImage,         \* --new archive
    diffFile,         \* file at the compare --output / merge --diff-tar path
    sidecar,          \* file at <that path>.json
    mergedFile,       \* file at the merge --output path
    tmpdirs,          \* temporary directories that exist
    el_tree,          \* content of extract_layers_info's tmpdir
    base_layers,      \* compare_images: base_layers
    files_to_add,     \* mode_1_create_diff locals
    filenames_to_add,
    kept_layers,
    total_size,
    widx,             \* position of the write loop in files_to_add
    base_dir,         \* merge_base_diff_images: the three trees under tmpdir
    diff_dir,
    merged_dir,
    todo,             \* files of merged_dir the walk has not added yet
    ret,              \* compare_images' return value
    log,              \* logger.error / logger.warning records
    summary,          \* the values mode_1_create_diff reports
    fatal             \* history: the error the command ended with, "none" so far

vars == <<cmd, pc, baseImage, newImage, diffFile, sidecar, mergedFile, tmpdirs,
          el_tree, base_layers, files_to_add, filenames_to_add, kept_layers,
          total_size, widx, base_dir, diff_dir, merged_dir, todo, ret, log,
          summary, fatal>>

(***************************************************************************)
(* Bounds                                                                  *)
(***************************************************************************)
MaxMembers == 4       \* members of an archive compare reads
MaxTreeMembers == 3   \* members of an archive merge extracts

(***************************************************************************)
(* Archives and their members                                              *)
(***************************************************************************)
TarInfo(n, d, s, c) == [name |-> n, isdir |-> d, size |-> s, data |-> c]

Dir(n) == TarInfo(n, TRUE, 0, "")

MANIFEST == <<"manifest.json">>

Range(s) == {s[k] : k \in 1..Len(s)}

IsProperPrefix(p, q) == Len(p) < Len(q) /\ SubSeq(q, 1, Len(p)) = p

Prefixes(p) == {SubSeq(p, 1, k) : k \in 1..(Len(p) - 1)}

\* An archive a filesystem can hold: no name twice, no file above another member.
WellFormed(tar) ==
    /\ \A a, b \in 1..Len(tar) : tar[a].name = tar[b].name => a = b
    /\ \A a, b \in 1..Len(tar) : IsProperPrefix(tar[a].name, tar[b].name) => tar[a].isdir

SeqsUpTo(E, n) == UNION {[1..k -> E] : k \in 0..n}

ImagesOver(E, n) == {tar \in SeqsUpTo(E, n) : WellFormed(tar)}

(***************************************************************************)
(* json.load, on the data tokens of the model                              *)
(***************************************************************************)
Image(has, layers) == [hasLayers |-> has, Layers |-> layers]

ParseJSON(data) ==
    CASE data = "mL1"    -> [ok |-> TRUE, images |-> <<Image(TRUE, <<<<"L1", "layer.tar">>>>)>>]
      [] data = "mL1L2"  -> [ok |-> TRUE, images |-> <<Image(TRUE, <<<<"L1", "layer.tar">>, <<"L2", "layer.tar">>>>)>>]
      [] data = "mNone"  -> [ok |-> TRUE, images |-> <<Image(TRUE, <<>>)>>]
      [] data = "mNoKey" -> [ok |-> TRUE, images |-> <<Image(FALSE, <<>>)>>]
      [] data = "mEmpty" -> [ok |-> TRUE, images |-> <<>>]
      [] OTHER           -> [ok |-> FALSE, images |-> <<>>]

(***************************************************************************)
(* Directory trees                                                         *)
(***************************************************************************)
EmptyTree == [dirs |-> {}, files |-> <<>>]

Tree(d, f) == [dirs |-> d, files |-> f]

\* tar.extractall: every member lands at its name, parents are created.
ExtractAll(tar) ==
    LET fnames == {tar[k].name : k \in {j \in 1..Len(tar) : ~tar[j].isdir}}
        dnames == {tar[k].name : k \in {j \in 1..Len(tar) : tar[j].isdir}}
        last(n) == CHOOSE k \in 1..Len(tar) :
                      /\ tar[k].name = n
                      /\ \A j \in 1..Len(tar) : tar[j].name = n => j <= k
    IN  Tree(dnames \cup UNION {Prefixes(tar[k].name) : k \in 1..Len(tar)},
             [n \in fnames |-> [size |-> tar[last(n)].size, data |-> tar[last(n)].data]])

\* shutil.copytree(src, dst, dirs_exist_ok=True) on trees: a directory of src
\* that dst holds as a file makes os.makedirs raise, which skips its subtree
\* and is collected as an error; a file of src that dst holds as a directory is
\* copied into that directory by copy2 (under its own base name), and raises
\* if a directory sits there too.  ok is FALSE when copytree ends by raising.
CopyTree(src, dst) ==
    LET clash(d)   == d \in src.dirs /\ d \in DOMAIN dst.files
        blocked(p) == \E q \in Prefixes(p) : clash(q)
        srcfiles   == {p \in DOMAIN src.files : ~blocked(p)}
        target(p)  == IF p \in dst.dirs THEN p \o <<p[Len(p)]>> ELSE p
        written    == {p \in srcfiles : target(p) \notin dst.dirs}
        newdirs    == {d \in src.dirs : ~clash(d) /\ ~blocked(d)}
        source(t)  == CHOOSE p \in written : target(p) = t
        copied     == [t \in {target(p) : p \in written} |-> src.files[source(t)]]
    IN  [tree |-> Tree(dst.dirs \cup newdirs, copied @@ dst.files),
         ok   |-> /\ \A d \in src.dirs : ~clash(d)
                  /\ written = srcfiles]

(***************************************************************************)
(* extract_layers_info                                                     *)
(***************************************************************************)
\* mutant of NoLayers: an empty layer list instead of an empty dict
EmptyLayerList == [hasKey |-> TRUE, Layers |-> <<>>]

\* dict(): no key at all, which is what `not base_layers` tests
NoLayers == [hasKey |-> FALSE, Layers |-> <<>>]

\* layer.split("/")[0] for layer in manifest[0]['Layers']
LayerIds(layers) == [k \in 1..Len(layers) |-> layers[k][1]]

\* manifest[0]['Layers'] raises on an empty array or a missing key
ManifestLayers(parsed) ==
    IF parsed.ok /\ Len(parsed.images) > 0 /\ parsed.images[1].hasLayers
       THEN [ok |-> TRUE, Layers |-> parsed.images[1].Layers]
       ELSE [ok |-> FALSE, Layers |-> <<>>]

\* mutant of CleanupTmp: the directory is left behind
KeepTmp(dirs, t) == dirs

\* leaving a `with tempfile.TemporaryDirectory()` block, by return or by raise
CleanupTmp(dirs, t) == dirs \ {t}

(***************************************************************************)
(* mode_1_create_diff: the classification loop                             *)
(***************************************************************************)
Fmt2(bytes) == (bytes + 5000) \div 10000   \* f'{total_size:.2f}', in hundredths of a MB

\* A name of one segment is that segment: "L1".split("/") = ["L1"]
AsName(segment) == <<segment>>

\* file_tar.isdir() and len(file_tar.name.split("/")) < 2
IsRootDir(file_tar) == file_tar.isdir /\ Len(file_tar.name) < 2

\* base_layers["Layers"] raises KeyError on a dict without the key
InLayers(name, layers) == \E l \in Range(layers.Layers) : AsName(l) = name

\* mutant of IsNew: the membership test is lost
IsNewAnyRootDir(file_tar, layers) ==
    file_tar.isdir /\ Len(file_tar.name) < 2 /\ layers.hasKey

\* file_tar.name not in base_layers["Layers"]
IsNew(file_tar, layers) ==
    IsRootDir(file_tar) /\ layers.hasKey /\ ~InLayers(file_tar.name, layers)

\* else: kept_layers.append(file_tar.name)
IsKept(file_tar, layers) ==
    IsRootDir(file_tar) /\ layers.hasKey /\ InLayers(file_tar.name, layers)

\* mutant of Selected: `not file_tar.isdir()` is lost
SelectedAnyRoot(file_tar, names) ==
    <<file_tar.name[1]>> \in names \/ Len(file_tar.name) = 1

\* mutant of Selected: loose root-level files are not carried over
SelectedNoLoose(file_tar, names) == <<file_tar.name[1]>> \in names

\* root_dir in filenames_to_add or (len(subfiles) == 1 and not file_tar.isdir())
Selected(file_tar, names) ==
    AsName(file_tar.name[1]) \in names \/ (Len(file_tar.name) = 1 /\ ~file_tar.isdir)

\* for file_tar in all_files: ..., from member k on
RECURSIVE Scan(_, _, _, _)
Scan(all_files, k, layers, acc) ==
    IF k > Len(all_files) THEN acc
    ELSE LET file_tar == all_files[k]
             names    == IF IsNew(file_tar, layers)
                            THEN acc.filenames_to_add \cup {file_tar.name}
                            ELSE acc.filenames_to_add
             kept     == IF IsKept(file_tar, layers)
                            THEN Append(acc.kept_layers, file_tar.name)
                            ELSE acc.kept_layers
             sel      == Selected(file_tar, names)
         IN  Scan(all_files, k + 1, layers,
                  [files_to_add     |-> IF sel THEN Append(acc.files_to_add, file_tar)
                                               ELSE acc.files_to_add,
                   filenames_to_add |-> names,
                   kept_layers      |-> kept,
                   total_size       |-> IF sel THEN acc.total_size + file_tar.size
                                               ELSE acc.total_size,
                   warned           |-> IF IsRootDir(file_tar) /\ ~layers.hasKey
                                           THEN acc.warned \cup {file_tar.name}
                                           ELSE acc.warned])

ScanInit == [files_to_add |-> <<>>, filenames_to_add |-> {}, kept_layers |-> <<>>,
             total_size |-> 0, warned |-> {}]

\* tar.extractfile(name): the data of the last member of that name (None for a directory)
ExtractFile(tar, name) ==
    LET k == CHOOSE j \in 1..Len(tar) :
                 /\ tar[j].name = name
                 /\ \A i \in 1..Len(tar) : tar[i].name = name => i <= j
    IN  tar[k].data

(***************************************************************************)
(* Files at the output paths                                               *)
(***************************************************************************)
\* run: "prior" for a file that was there before the command, "this" for one
\* the running command created; complete: the archive was closed normally.
AbsentFile == [exists |-> FALSE, complete |-> FALSE, run |-> "none", members |-> <<>>]

PriorFile(m) == [exists |-> TRUE, complete |-> TRUE, run |-> "prior", members |-> m]

OpenedFile == [exists |-> TRUE, complete |-> FALSE, run |-> "this", members |-> <<>>]

LogRec(level, msg, name) == [level |-> level, msg |-> msg, name |-> name]

NoSummary == [total |-> -1, kept |-> -1, new |-> -1]

(***************************************************************************)
(* Inputs                                                                  *)
(***************************************************************************)
L1 == <<"L1">>
L2 == <<"L2">>
L1tar == <<"L1", "layer.tar">>
L2tar == <<"L2", "layer.tar">>

\* members of the --new archive of a compare
NewEntries ==
    {Dir(L1), Dir(L2),
     TarInfo(L1tar, FALSE, 1500000, "old"), TarInfo(L1tar, FALSE, 4000, "old"),
     TarInfo(L2tar, FALSE, 2500000, "old"), Dir(<<"L1", "blobs">>),
     TarInfo(MANIFEST, FALSE, 4000, "mL1")}

\* the --base archive of a compare: only its manifest is read
BaseImages ==
    {<<>>} \cup {<<TarInfo(MANIFEST, FALSE, 4000, d)>> :
                    d \in {"mL1", "mL1L2", "mNone", "mNoKey", "mEmpty", "bad"}}

\* the image of a round trip, compared with itself and merged with its own diff
RoundTripEntries ==
    {Dir(L1), Dir(L2), TarInfo(L1tar, FALSE, 4000, "old"),
     TarInfo(MANIFEST, FALSE, 4000, "mL1"), TarInfo(MANIFEST, FALSE, 4000, "mNone"),
     TarInfo(MANIFEST, FALSE, 4000, "bad")}

\* the --base and --diff-tar archives of a merge
MergeBaseEntries ==
    {TarInfo(L1tar, FALSE, 4000, "old"), TarInfo(L2, FALSE, 4000, "old"),
     TarInfo(<<"L1", "L1">>, FALSE, 4000, "old"),
     TarInfo(MANIFEST, FALSE, 4000, "mL1"), Dir(L1)}

MergeDiffEntries ==
    {TarInfo(L1tar, FALSE, 4000, "new"), TarInfo(L1, FALSE, 4000, "new"),
     TarInfo(L2tar, FALSE, 4000, "new"), Dir(L2),
     TarInfo(MANIFEST, FALSE, 4000, "mL1L2"), TarInfo(MANIFEST, FALSE, 4000, "bad")}

Init ==
    /\ cmd \in {"compare", "merge", "roundtrip"}
    /\ pc = IF cmd = "merge" THEN "mg_start" ELSE "cmp_start"
    /\ \/ /\ cmd = "compare"
          /\ baseImage \in BaseImages
          /\ newImage \in ImagesOver(NewEntries, MaxMembers)
          /\ \E prior \in BOOLEAN :
                /\ diffFile = IF prior THEN PriorFile(<<>>) ELSE AbsentFile
                /\ sidecar  = IF prior THEN PriorFile(<<>>) ELSE AbsentFile
          /\ mergedFile = AbsentFile
       \/ /\ cmd = "merge"
          /\ baseImage \in ImagesOver(MergeBaseEntries, MaxTreeMembers)
          /\ newImage = <<>>
          /\ \E d \in ImagesOver(MergeDiffEntries, MaxTreeMembers) : diffFile = PriorFile(d)
          /\ sidecar = PriorFile(<<>>)
          /\ mergedFile \in {AbsentFile, PriorFile(<<>>)}
       \/ /\ cmd = "roundtrip"
          /\ baseImage \in ImagesOver(RoundTripEntries, MaxMembers)
          /\ newImage = baseImage
          /\ diffFile = AbsentFile
          /\ sidecar = AbsentFile
          /\ mergedFile = AbsentFile
    /\ tmpdirs = {}
    /\ el_tree = EmptyTree
    /\ base_layers = NoLayers
    /\ files_to_add = <<>>
    /\ filenames_to_add = {}
    /\ kept_layers = <<>>
    /\ total_size = 0
    /\ widx = 1
    /\ base_dir = EmptyTree
    /\ diff_dir = EmptyTree
    /\ merged_dir = EmptyTree
    /\ todo = {}
    /\ ret = "none"
    /\ log = {}
    /\ summary = NoSummary
    /\ fatal = "none"

fsVars == <<diffFile, sidecar, mergedFile>>
inputVars == <<cmd, baseImage, newImage>>
m1Vars == <<files_to_add, filenames_to_add, kept_layers, total_size, widx, summary>>
mgVars == <<base_dir, diff_dir, merged_dir, todo>>

(***************************************************************************)
(* compare_images: extract_layers_info(base_image)                         *)
(***************************************************************************)
\* with tempfile.TemporaryDirectory() as tmpdir
EL_Enter ==
    /\ pc = "cmp_start"
    /\ tmpdirs' = tmpdirs \cup {"layers"}
    /\ pc' = "el_extract"
    /\ UNCHANGED <<inputVars, fsVars, el_tree, base_layers, m1Vars, mgVars, ret, log, fatal>>

\* extract_tar(image_tar, tmpdir); an archive that cannot be read raises
EL_Extract ==
    /\ pc = "el_extract"
    /\ \E ok \in BOOLEAN :
          IF ok
             THEN /\ el_tree' = ExtractAll(baseImage)
                  /\ pc' = "el_exists"
                  /\ UNCHANGED <<tmpdirs, fatal>>
             ELSE /\ tmpdirs' = CleanupTmp(tmpdirs, "layers")
                  /\ pc' = "raised"
                  /\ fatal' = "ExtractionError"
                  /\ UNCHANGED el_tree
    /\ UNCHANGED <<inputVars, fsVars, base_layers, m1Vars, mgVars, ret, log>>

\* os.path.exists(path)
Exists(tree, path) == path \in DOMAIN tree.files \/ path \in tree.dirs

\* if not os.path.exists(manifest_path): logger.error(...); return dict()
EL_CheckManifest ==
    /\ pc = "el_exists"
    /\ IF Exists(el_tree, MANIFEST)
          THEN /\ pc' = "el_parse"
               /\ UNCHANGED <<tmpdirs, el_tree, base_layers, log>>
          ELSE /\ log' = log \cup {LogRec("error", "manifest.json not found in", <<>>)}
               /\ base_layers' = NoLayers
               /\ tmpdirs' = CleanupTmp(tmpdirs, "layers")
               /\ el_tree' = EmptyTree
               /\ pc' = "cmp_check"
    /\ UNCHANGED <<inputVars, fsVars, m1Vars, mgVars, ret, fatal>>

\* open(manifest_path), json.load(f), manifest[0]['Layers'] of a tree
ReadManifest(tree) ==
    IF MANIFEST \in DOMAIN tree.files
       THEN ManifestLayers(ParseJSON(tree.files[MANIFEST].data))
       ELSE [ok |-> FALSE, Layers |-> <<>>]

\* json.load(f); layers_info = {'Layers': [...]}; return layers_info
EL_Parse ==
    /\ pc = "el_parse"
    /\ LET m == ReadManifest(el_tree)
       IN  IF m.ok
              THEN /\ base_layers' = [hasKey |-> TRUE, Layers |-> LayerIds(m.Layers)]
                   /\ pc' = "cmp_check"
                   /\ UNCHANGED fatal
              ELSE /\ pc' = "raised"
                   /\ fatal' = "ManifestParseError"
                   /\ UNCHANGED base_layers
    /\ tmpdirs' = CleanupTmp(tmpdirs, "layers")
    /\ el_tree' = EmptyTree
    /\ UNCHANGED <<inputVars, fsVars, m1Vars, mgVars, ret, log>>

\* if not base_layers: logger.error(...); return False
CMP_Check ==
    /\ pc = "cmp_check"
    /\ IF ~base_layers.hasKey
          THEN /\ log' = log \cup {LogRec("error", "Failed to extract base image layers info", <<>>)}
               /\ ret' = "False"
               /\ pc' = "done"
          ELSE /\ pc' = "m1_scan"
               /\ UNCHANGED <<log, ret>>
    /\ UNCHANGED <<inputVars, fsVars, tmpdirs, el_tree, base_layers, m1Vars, mgVars, fatal>>

(***************************************************************************)
(* mode_1_create_diff                                                      *)
(***************************************************************************)
\* tarfile.open(update_src); tar.getmembers(); the loop over all_files
M1_Scan ==
    /\ pc = "m1_scan"
    /\ \E ok \in BOOLEAN :
          IF ok
             THEN LET r == Scan(newImage, 1, base_layers, ScanInit)
                  IN  /\ files_to_add' = r.files_to_add
                      /\ filenames_to_add' = r.filenames_to_add
                      /\ kept_layers' = r.kept_layers
                      /\ total_size' = r.total_size
                      /\ log' = log \cup {LogRec("warning", "Could not process", n) : n \in r.warned}
                      /\ pc' = "m1_remove"
                      /\ UNCHANGED fatal
             ELSE /\ pc' = "raised"
                  /\ fatal' = "ExtractionError"
                  /\ UNCHANGED <<files_to_add, filenames_to_add, kept_layers, total_size, log>>
    /\ UNCHANGED <<inputVars, fsVars, tmpdirs, el_tree, base_layers, widx, summary, mgVars, ret>>

\* if os.path.exists(output_diff_tar): os.remove(output_diff_tar)
M1_RemoveOld ==
    /\ pc = "m1_remove"
    /\ diffFile' = IF diffFile.exists THEN AbsentFile ELSE diffFile
    /\ pc' = "m1_open"
    /\ UNCHANGED <<inputVars, sidecar, mergedFile, tmpdirs, el_tree, base_layers, m1Vars, mgVars,
                   ret, log, fatal>>

\* with tarfile.open(name=output_diff_tar, mode='w') as tar_new
M1_OpenOut ==
    /\ pc = "m1_open"
    /\ \E ok \in BOOLEAN :
          IF ok
             THEN /\ diffFile' = OpenedFile
                  /\ widx' = 1
                  /\ pc' = "m1_add"
                  /\ UNCHANGED fatal
             ELSE /\ pc' = "raised"
                  /\ fatal' = "WriteError"
                  /\ UNCHANGED <<diffFile, widx>>
    /\ UNCHANGED <<inputVars, sidecar, mergedFile, tmpdirs, el_tree, base_layers, files_to_add,
                   filenames_to_add, kept_layers, total_size, summary, mgVars, ret, log>>

\* one member written to the open archive: its header, then its data
AddFile(file, tarinfo, f) ==
    [file EXCEPT !.members = Append(@, TarInfo(tarinfo.name, tarinfo.isdir, tarinfo.size, f))]

\* mutant of SkipEntry: the exception is not caught
AbortOnEntry(lg, tarinfo) == [log |-> lg, pc |-> "raised", fatal |-> "EntryReadError"]

\* except Exception as e: logger.warning(f"Could not add {tarinfo.name} to diff: {e}")
\* and the loop goes on with the next member
SkipEntry(lg, tarinfo) ==
    [log |-> lg \cup {LogRec("warning", "Could not add to diff", tarinfo.name)},
     pc |-> "m1_add", fatal |-> "none"]

\* f = tar.extractfile(tarinfo.name); tar_new.addfile(tarinfo, f), which may raise
M1_AddFile ==
    /\ pc = "m1_add"
    /\ widx <= Len(files_to_add)
    /\ LET tarinfo == files_to_add[widx]
       IN  \E ok \in BOOLEAN :
              IF ok
                 THEN /\ diffFile' = AddFile(diffFile, tarinfo, ExtractFile(newImage, tarinfo.name))
                      /\ UNCHANGED <<log, fatal, pc>>
                 ELSE /\ log' = SkipEntry(log, tarinfo).log
                      /\ pc' = SkipEntry(log, tarinfo).pc
                      /\ fatal' = SkipEntry(log, tarinfo).fatal
                      /\ UNCHANGED diffFile
    /\ widx' = widx + 1
    /\ UNCHANGED <<inputVars, sidecar, mergedFile, tmpdirs, el_tree, base_layers, files_to_add,
                   filenames_to_add, kept_layers, total_size, summary, mgVars, ret>>

\* leaving the `with tarfile.open(..., mode='w')` block closes the archive
M1_CloseOut ==
    /\ pc = "m1_add"
    /\ widx > Len(files_to_add)
    /\ \E ok \in BOOLEAN :
          IF ok
             THEN /\ diffFile' = [diffFile EXCEPT !.complete = TRUE]
                  /\ pc' = "m1_sidecar"
                  /\ UNCHANGED fatal
             ELSE /\ pc' = "raised"
                  /\ fatal' = "WriteError"
                  /\ UNCHANGED diffFile
    /\ UNCHANGED <<inputVars, sidecar, mergedFile, tmpdirs, el_tree, base_layers, m1Vars, mgVars,
                   ret, log>>

\* with open(output_diff_tar + '.json', 'w') as f: json.dump(kept_layers, f)
M1_WriteSidecar ==
    /\ pc = "m1_sidecar"
    /\ \E outcome \in {"ok", "open raises", "write raises"} :
          CASE outcome = "ok" ->
                  /\ sidecar' = [exists |-> TRUE, complete |-> TRUE, run |-> "this",
                                 members |-> kept_layers]
                  /\ pc' = "m1_report"
                  /\ UNCHANGED fatal
            [] outcome = "open raises" ->
                  /\ pc' = "raised"
                  /\ fatal' = "WriteError"
                  /\ UNCHANGED sidecar
            [] outcome = "write raises" ->
                  /\ sidecar' = OpenedFile
                  /\ pc' = "raised"
                  /\ fatal' = "WriteError"
    /\ UNCHANGED <<inputVars, diffFile, mergedFile, tmpdirs, el_tree, base_layers, m1Vars, mgVars,
                   ret, log>>

\* the logger.info lines of the summary; compare_images then returns True
M1_Report ==
    /\ pc = "m1_report"
    /\ summary' = [total |-> Fmt2(total_size), kept |-> Len(kept_layers),
                   new |-> Cardinality(filenames_to_add)]
    /\ ret' = "True"
    /\ pc' = IF cmd = "roundtrip" THEN "mg_start" ELSE "done"
    /\ UNCHANGED <<inputVars, fsVars, tmpdirs, el_tree, base_layers, files_to_add,
                   filenames_to_add, kept_layers, total_size, widx, mgVars, log, fatal>>

(***************************************************************************)
(* merge_base_diff_images                                                  *)
(***************************************************************************)
MergeError == LogRec("error", "Error during image merge", <<>>)

\* except Exception as e: logger.error(...); raise -- and the
\* TemporaryDirectory block is left, which removes tmpdir and the trees in it
MG_Raise(err) ==
    /\ log' = log \cup {MergeError}
    /\ tmpdirs' = CleanupTmp(tmpdirs, "merge")
    /\ base_dir' = EmptyTree
    /\ diff_dir' = EmptyTree
    /\ merged_dir' = EmptyTree
    /\ todo' = {}
    /\ pc' = "raised"
    /\ fatal' = err

\* with tempfile.TemporaryDirectory() as tmpdir; os.makedirs of base, diff, merged
MG_Enter ==
    /\ pc = "mg_start"
    /\ tmpdirs' = tmpdirs \cup {"merge"}
    /\ base_dir' = EmptyTree
    /\ diff_dir' = EmptyTree
    /\ merged_dir' = EmptyTree
    /\ pc' = "mg_extract_base"
    /\ UNCHANGED <<inputVars, fsVars, el_tree, base_layers, m1Vars, todo, ret, log, fatal>>

\* extract_tar(base_tar, base_dir)
MG_ExtractBase ==
    /\ pc = "mg_extract_base"
    /\ \E ok \in BOOLEAN :
          IF ok
             THEN /\ base_dir' = ExtractAll(baseImage)
                  /\ pc' = "mg_extract_diff"
                  /\ UNCHANGED <<diff_dir, merged_dir, todo, tmpdirs, log, fatal>>
             ELSE MG_Raise("ExtractionError")
    /\ UNCHANGED <<inputVars, fsVars, el_tree, base_layers, m1Vars, ret>>

\* extract_tar(diff_tar, diff_dir)
MG_ExtractDiff ==
    /\ pc = "mg_extract_diff"
    /\ \E ok \in BOOLEAN :
          IF ok /\ diffFile.exists /\ diffFile.complete
             THEN /\ diff_dir' = ExtractAll(diffFile.members)
                  /\ pc' = "mg_copy_base"
                  /\ UNCHANGED <<base_dir, merged_dir, todo, tmpdirs, log, fatal>>
             ELSE MG_Raise("ExtractionError")
    /\ UNCHANGED <<inputVars, fsVars, el_tree, base_layers, m1Vars, ret>>

\* shutil.copytree(base_dir, merged_dir, dirs_exist_ok=True)
MG_CopyBase ==
    /\ pc = "mg_copy_base"
    /\ LET r == CopyTree(base_dir, merged_dir)
       IN  IF r.ok
              THEN /\ merged_dir' = r.tree
                   /\ pc' = "mg_copy_diff"
                   /\ UNCHANGED <<base_dir, diff_dir, todo, tmpdirs, log, fatal>>
              ELSE MG_Raise("CopyError")
    /\ UNCHANGED <<inputVars, fsVars, el_tree, base_layers, m1Vars, ret>>

\* shutil.copytree(diff_dir, merged_dir, dirs_exist_ok=True)
MG_CopyDiff ==
    /\ pc = "mg_copy_diff"
    /\ LET r == CopyTree(diff_dir, merged_dir)
       IN  IF r.ok
              THEN /\ merged_dir' = r.tree
                   /\ pc' = "mg_manifest"
                   /\ UNCHANGED <<base_dir, diff_dir, todo, tmpdirs, log, fatal>>
              ELSE MG_Raise("CopyError")
    /\ UNCHANGED <<inputVars, fsVars, el_tree, base_layers, m1Vars, ret>>

\* if not os.path.exists(manifest_path): raise FileNotFoundError
\* manifest = json.load(f); layers = manifest[0]['Layers']
MG_Manifest ==
    /\ pc = "mg_manifest"
    /\ IF ~Exists(diff_dir, MANIFEST)
          THEN MG_Raise("ManifestMissing")
          ELSE IF ~ReadManifest(diff_dir).ok
                  THEN MG_Raise("ManifestParseError")
                  ELSE /\ pc' = "mg_open"
                       /\ UNCHANGED <<mgVars, tmpdirs, log, fatal>>
    /\ UNCHANGED <<inputVars, fsVars, el_tree, base_layers, m1Vars, ret>>

\* with tarfile.open(output_tar, 'w') as outtar
MG_OpenOut ==
    /\ pc = "mg_open"
    /\ \E ok \in BOOLEAN :
          IF ok
             THEN /\ mergedFile' = OpenedFile
                  /\ todo' = DOMAIN merged_dir.files
                  /\ pc' = "mg_add"
                  /\ UNCHANGED <<base_dir, diff_dir, merged_dir, tmpdirs, log, fatal>>
             ELSE /\ MG_Raise("WriteError")
                  /\ UNCHANGED mergedFile
    /\ UNCHANGED <<inputVars, diffFile, sidecar, el_tree, base_layers, m1Vars, ret>>

\* for root, _, files in os.walk(merged_dir): outtar.add(fullpath, arcname=arcname)
\* os.walk lists a directory in an order the filesystem chooses
MG_AddFile ==
    /\ pc = "mg_add"
    /\ \E file \in todo : \E ok \in BOOLEAN :
          IF ok
             THEN /\ mergedFile' = AddFile(mergedFile,
                                           TarInfo(file, FALSE, merged_dir.files[file].size, ""),
                                           merged_dir.files[file].data)
                  /\ todo' = todo \ {file}
                  /\ UNCHANGED <<base_dir, diff_dir, merged_dir, tmpdirs, log, fatal, pc>>
             ELSE /\ MG_Raise("WriteError")
                  /\ UNCHANGED mergedFile
    /\ UNCHANGED <<inputVars, diffFile, sidecar, el_tree, base_layers, m1Vars, ret>>

\* the walk is over: the archive is closed, then the TemporaryDirectory block is left
MG_CloseOut ==
    /\ pc = "mg_add"
    /\ todo = {}
    /\ \E ok \in BOOLEAN :
          IF ok
             THEN /\ mergedFile' = [mergedFile EXCEPT !.complete = TRUE]
                  /\ tmpdirs' = CleanupTmp(tmpdirs, "merge")
                  /\ base_dir' = EmptyTree
                  /\ diff_dir' = EmptyTree
                  /\ merged_dir' = EmptyTree
                  /\ pc' = "done"
                  /\ UNCHANGED <<todo, log, fatal>>
             ELSE /\ MG_Raise("WriteError")
                  /\ UNCHANGED mergedFile
    /\ UNCHANGED <<inputVars, diffFile, sidecar, el_tree, base_layers, m1Vars, ret>>

Next ==
    \/ EL_Enter
    \/ EL_Extract
    \/ EL_CheckManifest
    \/ EL_Parse
    \/ CMP_Check
    \/ M1_Scan
    \/ M1_RemoveOld
    \/ M1_OpenOut
    \/ M1_AddFile
    \/ M1_CloseOut
    \/ M1_WriteSidecar
    \/ M1_Report
    \/ MG_Enter
    \/ MG_ExtractBase
    \/ MG_ExtractDiff
    \/ MG_CopyBase
    \/ MG_CopyDiff
    \/ MG_Manifest
    \/ MG_OpenOut
    \/ MG_AddFile
    \/ MG_CloseOut

Spec == Init /\ [][Next]_vars

(***************************************************************************)
(* Vocabulary of the properties                                            *)
(***************************************************************************)
Entries(tar) == Range(tar)

RootDirs(tar) == {e.name : e \in {x \in Entries(tar) : x.isdir /\ Len(x.name) = 1}}

LooseFiles(tar) == {e \in Entries(tar) : ~e.isdir /\ Len(e.name) = 1}

\* the top-level names an archive has layers under, with or without a directory entry
TopLevelNames(tar) ==
    {<<e.name[1]>> : e \in {x \in Entries(tar) : x.isdir \/ Len(x.name) > 1}}

LayerNames(layers) == {<<l>> : l \in Range(layers.Layers)}

\* the names the "Could not add ... to diff" warnings give
Failed == {r.name : r \in {x \in log : x.msg = "Could not add to diff"}}

BuildDiffDone == ret = "True"

ScanDone == pc \in {"m1_remove", "m1_open", "m1_add", "m1_sidecar", "m1_report"} \/ BuildDiffDone

RECURSIVE SumSizes(_)
SumSizes(members) ==
    IF members = <<>> THEN 0 ELSE Head(members).size + SumSizes(Tail(members))

FilesOf(members) == ExtractAll(members).files

IOErrors == {"ExtractionError", "WriteError"}

ValidManifest(tar) == ReadManifest(ExtractAll(tar)).ok

NoManifest(tar) == ~Exists(ExtractAll(tar), MANIFEST)

(***************************************************************************)
(* C1: when the top-level layer names of the new archive and the layers of *)
(* the base are disjoint, the diff holds every entry of the new archive,   *)
(* in whatever order the members come, and the reused-layer list is empty. *)
(***************************************************************************)
C1_DisjointIncludesAll ==
    (/\ BuildDiffDone
     /\ TopLevelNames(newImage) \cap LayerNames(base_layers) = {}
     /\ Failed = {})
    => /\ Entries(newImage) \subseteq Entries(diffFile.members)
       /\ sidecar.members = <<>>

(***************************************************************************)
(* C2: when every top-level directory of the new archive is a layer of the *)
(* base, the diff holds exactly the root-level loose files of the new      *)
(* archive (those whose data could be read), and the reused-layer list is  *)
(* the set of the new archive's top-level directories.                     *)
(***************************************************************************)
C2_AllReusedOnlyLooseFiles ==
    (BuildDiffDone /\ RootDirs(newImage) \subseteq LayerNames(base_layers))
    => /\ Entries(diffFile.members) = {e \in LooseFiles(newImage) : e.name \notin Failed}
       /\ Range(sidecar.members) = RootDirs(newImage)

C2_Witness ==
    /\ BuildDiffDone
    /\ RootDirs(newImage) # {}
    /\ RootDirs(newImage) \subseteq LayerNames(base_layers)
    /\ \E e \in Entries(newImage) : Len(e.name) > 1
    /\ Failed = {}
    /\ Entries(diffFile.members) # {}

(***************************************************************************)
(* C3: for an image with a valid manifest, comparing it with itself and    *)
(* merging it with the diff so produced ends, unless an I/O operation      *)
(* fails, with a complete output archive whose files and their contents    *)
(* are those of the image's extracted tree.                                *)
(***************************************************************************)
C3_RoundTrip ==
    (cmd = "roundtrip" /\ ValidManifest(baseImage))
    => /\ pc = "done" => /\ ret = "True"
                         /\ mergedFile.complete
                         /\ FilesOf(mergedFile.members) = FilesOf(baseImage)
       /\ pc = "raised" => \/ fatal \in IOErrors
                           \/ fatal = "ManifestMissing" /\ MANIFEST \in Failed

C3_Witness ==
    /\ cmd = "roundtrip"
    /\ pc = "done"
    /\ mergedFile.complete
    /\ Failed = {}
    /\ kept_layers # <<>>
    /\ Len(mergedFile.members) >= 2

(***************************************************************************)
(* C4: after a merge, a path that is a file in the base and in the diff    *)
(* holds the diff's content, and a path present in only one of the two     *)
(* holds that one's content.                                               *)
(***************************************************************************)
C4_DiffWinsOthersKept ==
    (pc = "done" /\ mergedFile.run = "this")
    => LET B == ExtractAll(baseImage)
           D == ExtractAll(diffFile.members)
           O == FilesOf(mergedFile.members)
       IN  /\ \A p \in DOMAIN B.files \cap DOMAIN D.files :
                 p \in DOMAIN O /\ O[p].data = D.files[p].data
           /\ \A p \in DOMAIN D.files :
                 ~Exists(B, p) => p \in DOMAIN O /\ O[p].data = D.files[p].data
           /\ \A p \in DOMAIN B.files :
                 ~Exists(D, p) => p \in DOMAIN O /\ O[p].data = B.files[p].data

(***************************************************************************)
(* C5: when the base archive has no manifest, extract_layers_info returns  *)
(* an empty result and logs an error without raising, compare_images       *)
(* returns False, mode_1_create_diff is never run, and neither the diff    *)
(* archive nor its side-car is produced.                                   *)
(***************************************************************************)
C5_MissingBaseManifest ==
    (cmd # "merge" /\ NoManifest(baseImage))
    => /\ pc \in {"cmp_start", "el_extract", "el_exists", "cmp_check", "done", "raised"}
       /\ pc = "raised" => fatal = "ExtractionError"
       /\ pc \in {"cmp_check", "done"} =>
             /\ base_layers = [hasKey |-> FALSE, Layers |-> <<>>]
             /\ LogRec("error", "manifest.json not found in", <<>>) \in log
       /\ pc = "done" =>
             /\ ret = "False"
             /\ LogRec("error", "Failed to extract base image layers info", <<>>) \in log
       /\ diffFile.run # "this" /\ sidecar.run # "this"
       \* a diff archive that was there before is still there, beside its side-car
       /\ diffFile.exists = sidecar.exists

C5_Witness ==
    /\ cmd = "compare"
    /\ NoManifest(baseImage)
    /\ pc = "done"
    /\ ret = "False"
    /\ Len(newImage) > 0
    /\ diffFile.exists

(***************************************************************************)
(* C6: the total size mode_1_create_diff reports is the sum of the sizes,  *)
(* in megabytes, of the entries that are in the written diff archive.      *)
(***************************************************************************)
C6_SizeAccounting ==
    BuildDiffDone => summary.total = Fmt2(SumSizes(diffFile.members))

(***************************************************************************)
(* C7: a failure to read one selected entry does not end the write loop;   *)
(* when mode_1_create_diff returns, every selected entry is either in the  *)
(* diff archive or named by a warning, never both, and the side-car holds  *)
(* the reused layers.                                                      *)
(***************************************************************************)
C7_Final ==
    BuildDiffDone
    => /\ diffFile.complete
       /\ Entries(diffFile.members) = {e \in Range(files_to_add) : e.name \notin Failed}
       /\ Failed \subseteq {e.name : e \in Range(files_to_add)}
       /\ sidecar.run = "this" /\ sidecar.complete /\ sidecar.members = kept_layers

C7_Step ==
    (pc = "m1_add" /\ widx <= Len(files_to_add)) => (pc' = "m1_add" /\ widx' = widx + 1)

C7_ReadFailureNonFatal == [](C7_Final) /\ [][C7_Step]_vars

C7_Witness ==
    /\ BuildDiffDone
    /\ Cardinality(Failed) = 1
    /\ Len(files_to_add) >= 2
    /\ Len(diffFile.members) = Len(files_to_add) - 1

(***************************************************************************)
(* C8: a temporary directory exists only while the operation that created  *)
(* it is running: none is left once extract_layers_info or                 *)
(* merge_base_diff_images has returned or raised.                          *)
(***************************************************************************)
C8_ScopedCleanup ==
    /\ "layers" \in tmpdirs => pc \in {"el_extract", "el_exists", "el_parse"}
    /\ "merge" \in tmpdirs =>
          pc \in {"mg_extract_base", "mg_extract_diff", "mg_copy_base", "mg_copy_diff",
                  "mg_manifest", "mg_open", "mg_add"}
    /\ pc \in {"done", "raised"} => tmpdirs = {}

C8_Witness ==
    /\ cmd = "merge"
    /\ pc = "raised"
    /\ fatal = "WriteError"
    /\ mergedFile.run = "this"
    /\ tmpdirs = {}

(***************************************************************************)
(* C9: when mode_1_create_diff or merge_base_diff_images ends with an      *)
(* extraction or write error, the output path holds nothing written by     *)
(* that run, or a complete archive (with its side-car, for a diff).        *)
(***************************************************************************)
C9_NoPartialOutput ==
    (pc = "raised" /\ fatal \in IOErrors)
    => /\ diffFile.run = "this" =>
             diffFile.complete /\ sidecar.run = "this" /\ sidecar.complete
       /\ mergedFile.run = "this" => mergedFile.complete
       /\ sidecar.run = "this" => sidecar.complete

====
